---- MODULE Spec2Model ----
(***************************************************************************)
(* Trip-time model of src/main.py: the constant-speed consumption of an    *)
(* electric car (get_consumption), the trip duration with charging stops   *)
(* (_get_trip_duration) and the speed sweep of plot_speed_vs_duration.     *)
(*                                                                         *)
(* Python floats are modelled as exact rationals n/d with a sign.  The     *)
(* numerators and denominators exceed the range of TLC's integers, so they *)
(* are kept as little-endian sequences of base-10000 digits.               *)
(***************************************************************************)
EXTENDS Integers, Sequences, FiniteSets, TLC

----------------------------------------------------------------------------
(* Natural numbers of arbitrary size: <<>> is 0, no leading zero digit.    *)

RECURSIVE NatToBig(_)
NatToBig(k) ==
  IF k = 0 THEN <<>> ELSE <<k % 10000>> \o NatToBig(k \div 10000)

Digit0(a) == IF a = <<>> THEN 0 ELSE Head(a)
Rest(a) == IF a = <<>> THEN <<>> ELSE Tail(a)

RECURSIVE BigAddC(_, _, _)
BigAddC(a, b, c) ==
  IF a = <<>> /\ b = <<>>
  THEN IF c = 0 THEN <<>> ELSE <<c>>
  ELSE LET s == Digit0(a) + Digit0(b) + c
       IN  <<s % 10000>> \o BigAddC(Rest(a), Rest(b), s \div 10000)

BigAdd(a, b) == BigAddC(a, b, 0)

RECURSIVE BigStrip(_)
BigStrip(a) ==
  IF a = <<>> THEN <<>>
  ELSE IF a[Len(a)] = 0 THEN BigStrip(SubSeq(a, 1, Len(a) - 1)) ELSE a

RECURSIVE BigCmpFrom(_, _, _)
BigCmpFrom(a, b, i) ==
  IF i = 0 THEN 0
  ELSE IF a[i] < b[i] THEN -1
  ELSE IF a[i] > b[i] THEN 1
  ELSE BigCmpFrom(a, b, i - 1)

\* -1, 0 or 1 as a < b, a = b or a > b
BigCmp(a, b) ==
  IF Len(a) < Len(b) THEN -1
  ELSE IF Len(a) > Len(b) THEN 1
  ELSE BigCmpFrom(a, b, Len(a))

RECURSIVE BigSubB(_, _, _)
BigSubB(a, b, c) ==
  IF a = <<>> THEN <<>>
  ELSE LET s == Head(a) - Digit0(b) - c
       IN  <<IF s < 0 THEN s + 10000 ELSE s>>
           \o BigSubB(Tail(a), Rest(b), IF s < 0 THEN 1 ELSE 0)

\* a - b for a >= b
BigSub(a, b) == BigStrip(BigSubB(a, b, 0))

RECURSIVE BigMulDigit(_, _, _)
BigMulDigit(a, k, c) ==
  IF a = <<>>
  THEN IF c = 0 THEN <<>> ELSE <<c>>
  ELSE LET s == Head(a) * k + c
       IN  <<s % 10000>> \o BigMulDigit(Tail(a), k, s \div 10000)

\* a times 10000
Shift(a) == IF a = <<>> THEN <<>> ELSE <<0>> \o a

RECURSIVE BigMul(_, _)
BigMul(a, b) ==
  IF a = <<>> \/ b = <<>> THEN <<>>
  ELSE BigAdd(IF Head(b) = 0 THEN <<>> ELSE BigMulDigit(a, Head(b), 0),
              Shift(BigMul(a, Tail(b))))

\* floor(a / b) for b > 0, as an integer (the quotients here are small)
RECURSIVE BigFloorDiv(_, _)
BigFloorDiv(a, b) ==
  IF BigCmp(a, b) < 0 THEN 0 ELSE 1 + BigFloorDiv(BigSub(a, b), b)

----------------------------------------------------------------------------
(* Signed rationals: the value is (-1)^neg * n / d, with d > 0.            *)

Q(num, den) ==
  [neg |-> num < 0,
   n |-> NatToBig(IF num < 0 THEN 0 - num ELSE num),
   d |-> NatToBig(den)]

Zero == [neg |-> FALSE, n |-> <<>>, d |-> <<1>>]

IsZero(a) == a.n = <<>>

\* the same value with the common factors 10000 of n and d cancelled
RECURSIVE Cancel(_, _, _)
Cancel(neg, n, d) ==
  IF n = <<>> THEN Zero
  ELSE IF Head(n) = 0 /\ Head(d) = 0 THEN Cancel(neg, Tail(n), Tail(d))
  ELSE [neg |-> neg, n |-> n, d |-> d]

RMul(a, b) == Cancel(a.neg # b.neg, BigMul(a.n, b.n), BigMul(a.d, b.d))

\* a / b for b # 0
RDiv(a, b) == Cancel(a.neg # b.neg, BigMul(a.n, b.d), BigMul(a.d, b.n))

\* (-1)^xneg * x / den + (-1)^yneg * y / den
AddOver(xneg, x, yneg, y, den) ==
  IF xneg = yneg THEN Cancel(xneg, BigAdd(x, y), den)
  ELSE IF BigCmp(x, y) >= 0 THEN Cancel(xneg, BigSub(x, y), den)
  ELSE Cancel(yneg, BigSub(y, x), den)

RAdd(a, b) ==
  AddOver(a.neg, BigMul(a.n, b.d), b.neg, BigMul(b.n, a.d), BigMul(a.d, b.d))

RNeg(a) == [neg |-> a.n # <<>> /\ ~a.neg, n |-> a.n, d |-> a.d]

RSub(a, b) == RAdd(a, RNeg(b))

\* -1, 0 or 1 as a < b, a = b or a > b
RCmp(a, b) ==
  IF a.neg # b.neg THEN (IF a.neg THEN -1 ELSE 1)
  ELSE IF a.neg THEN BigCmp(BigMul(b.n, a.d), BigMul(a.n, b.d))
  ELSE BigCmp(BigMul(a.n, b.d), BigMul(b.n, a.d))

RLt(a, b) == RCmp(a, b) < 0
RLe(a, b) == RCmp(a, b) <= 0
REq(a, b) == RCmp(a, b) = 0

\* variant: no clamp at 0
Max0Unclamped(x) == x

\* Python max(0, x): x when it is greater than 0, else the first argument
Max0(x) == IF RLt(Zero, x) THEN x ELSE Zero

\* q or q + 1 for q = floor(|x|): the least integer not below x
CeilFrom(x, q) ==
  IF x.neg THEN 0 - q
  ELSE IF BigCmp(BigMul(NatToBig(q), x.d), x.n) = 0 THEN q ELSE q + 1

\* variant: int(x) + 1
CeilFloorPlusOne(x) == BigFloorDiv(x.n, x.d) + 1

\* math.ceil
Ceil(x) == CeilFrom(x, BigFloorDiv(x.n, x.d))

----------------------------------------------------------------------------
(* Constants and records of main.py                                        *)

RO == Q(1204, 1000)   \* air density
G == Q(981, 100)      \* gravitational acceleration

Car(weight, area, eta, capacity, p_additional, cw, cr, charging_power) ==
  [weight |-> weight, area |-> area, eta |-> eta, capacity |-> capacity,
   p_additional |-> p_additional, cw |-> cw, cr |-> cr,
   charging_power |-> charging_power]

Trip(distance_km, charging_penalty_time_h, soc_start, soc_end) ==
  [distance_km |-> distance_km,
   charging_penalty_time_h |-> charging_penalty_time_h,
   soc_start |-> soc_start, soc_end |-> soc_end]

cla250 ==
  Car(Q(2055, 1), Q(228, 100), Q(93, 100), Q(85, 1), Q(1300, 1),
      Q(21, 100), Q(6, 1000), Q(220, 1))

zoe ==
  Car(Q(1577, 1), Q(227, 100), Q(85, 100), Q(41, 1), Q(1300, 1),
      Q(33, 100), Q(12, 1000), Q(22, 1))

\* the trip of the call in __main__
main_trip == Trip(Q(1000, 1), Q(2, 10), Q(1, 1), Q(5, 100))

----------------------------------------------------------------------------
(* A call either returns a float or raises ZeroDivisionError, the only     *)
(* exception the arithmetic of main.py can raise.                          *)

Return(x) == [exc |-> "none", val |-> x]
ZeroDivisionError == [exc |-> "ZeroDivisionError", val |-> Zero]
Raised(r) == r.exc # "none"

kmh_to_ms(v) == RDiv(v, Q(36, 10))

p_roll(car, v_ms) == RMul(RMul(RMul(car.cr, G), car.weight), v_ms)

f_air(car, v_ms) ==
  RMul(RMul(RMul(RMul(RDiv(RO, Q(2, 1)), v_ms), v_ms), car.cw), car.area)

\* variant: the drag force taken for the drag power
p_air_force_only(car, v_ms) == f_air(car, v_ms)

p_air(car, v_ms) == RMul(f_air(car, v_ms), v_ms)

duration_100km_h(v_ms) ==
  RDiv(RMul(RMul(RDiv(Q(1, 1), v_ms), Q(1000, 1)), Q(100, 1)), Q(3600, 1))

\* variant: the efficiency multiplies the driving energy
driving_energy_wh_times_eta(car, v_ms) ==
  RMul(RMul(RAdd(p_roll(car, v_ms), p_air(car, v_ms)), duration_100km_h(v_ms)),
       car.eta)

driving_energy_wh(car, v_ms) ==
  RMul(RMul(RAdd(p_roll(car, v_ms), p_air(car, v_ms)), duration_100km_h(v_ms)),
       RDiv(Q(1, 1), car.eta))

\* variant: the efficiency divides the auxiliary energy too
total_energy_wh_eta_on_all(car, v_ms) ==
  RAdd(driving_energy_wh(car, v_ms),
       RMul(RMul(car.p_additional, duration_100km_h(v_ms)),
            RDiv(Q(1, 1), car.eta)))

total_energy_wh(car, v_ms) ==
  RAdd(driving_energy_wh(car, v_ms),
       RMul(car.p_additional, duration_100km_h(v_ms)))

\* 1 / v_ms and 1 / car.eta raise when the divisor is 0
get_consumption(car, v_ms) ==
  IF IsZero(v_ms) \/ IsZero(car.eta) THEN ZeroDivisionError
  ELSE Return(RDiv(total_energy_wh(car, v_ms), Q(1000, 1)))

\* variant: the penalty charged once, whatever the number of stops
penalty_once(trip, energy_to_charge_kwh, num_times_charging) ==
  IF RLt(Zero, energy_to_charge_kwh)
  THEN trip.charging_penalty_time_h
  ELSE Zero

penalty(trip, energy_to_charge_kwh, num_times_charging) ==
  IF RLt(Zero, energy_to_charge_kwh)
  THEN RMul(trip.charging_penalty_time_h, Q(num_times_charging, 1))
  ELSE Zero

charging_time_h(car, energy_to_charge_kwh, pen) ==
  RAdd(RDiv(energy_to_charge_kwh, car.charging_power), pen)

energy_needed_kwh(car, trip, v_kmh) ==
  RDiv(RMul(get_consumption(car, kmh_to_ms(v_kmh)).val, trip.distance_km),
       Q(100, 1))

energy_to_charge_kwh(car, trip, energy_needed) ==
  Max0(RSub(RAdd(energy_needed, RMul(trip.soc_end, car.capacity)),
            RMul(trip.soc_start, car.capacity)))

num_times_charging(car, energy_to_charge) ==
  Ceil(RDiv(energy_to_charge, car.capacity))

\* the local variables of _get_trip_duration at its return statement, from
\* the energy to charge, the number of stops and the penalty
LocalsAtReturn(car, trip, v_kmh, energy_needed, energy_to_charge, num, pen) ==
  [driving_time_h |-> RDiv(trip.distance_km, v_kmh),
   energy_needed_kwh |-> energy_needed,
   energy_start_kwh |-> RMul(trip.soc_start, car.capacity),
   energy_end_kwh |-> RMul(trip.soc_end, car.capacity),
   energy_to_charge_kwh |-> energy_to_charge,
   num_times_charging |-> num,
   penalty |-> pen,
   charging_time_h |-> charging_time_h(car, energy_to_charge, pen),
   total |-> RAdd(RDiv(trip.distance_km, v_kmh),
                  charging_time_h(car, energy_to_charge, pen))]

LocalsFromStops(car, trip, v_kmh, energy_needed, energy_to_charge, num) ==
  LocalsAtReturn(car, trip, v_kmh, energy_needed, energy_to_charge, num,
                 penalty(trip, energy_to_charge, num))

LocalsFromCharge(car, trip, v_kmh, energy_needed, energy_to_charge) ==
  LocalsFromStops(car, trip, v_kmh, energy_needed, energy_to_charge,
                  num_times_charging(car, energy_to_charge))

LocalsFromNeeded(car, trip, v_kmh, energy_needed) ==
  LocalsFromCharge(car, trip, v_kmh, energy_needed,
                   energy_to_charge_kwh(car, trip, energy_needed))

\* the body of _get_trip_duration, one assignment after the other
TripLocals(car, trip, v_kmh) ==
  LocalsFromNeeded(car, trip, v_kmh, energy_needed_kwh(car, trip, v_kmh))

\* variant: the charging time left out of the sum
_get_trip_duration_driving_only(car, trip, v_kmh) ==
  IF \/ IsZero(v_kmh)
     \/ Raised(get_consumption(car, kmh_to_ms(v_kmh)))
     \/ IsZero(car.capacity)
     \/ IsZero(car.charging_power)
  THEN ZeroDivisionError
  ELSE Return(TripLocals(car, trip, v_kmh).driving_time_h)

\* the divisions by v_kmh, car.capacity and car.charging_power raise at 0
_get_trip_duration(car, trip, v_kmh) ==
  IF \/ IsZero(v_kmh)
     \/ Raised(get_consumption(car, kmh_to_ms(v_kmh)))
     \/ IsZero(car.capacity)
     \/ IsZero(car.charging_power)
  THEN ZeroDivisionError
  ELSE Return(TripLocals(car, trip, v_kmh).total)

----------------------------------------------------------------------------
(* Inputs.  The sweep is run for the vehicles of __main__ over trips of    *)
(* several lengths; each of the two functions is also called on its own,   *)
(* with speeds and records inside and outside the physical domain.         *)

MaxDistance == 2      \* sweep trips of 250 km, ..., 250 * MaxDistance km
MaxSpeedStep == 3     \* direct calls at speed steps -1 .. MaxSpeedStep

v_first == 45         \* range(45, 211)
v_stop == 211

\* variant: the stop value taken for the last value
InRangeInclusive(v) == v <= v_stop

\* the range has a value v left
InRange(v) == v < v_stop

WithField(r, f, x) == [r EXCEPT ![f] = x]

\* a trip needing exactly mult * capacity of charging at 120 km/h
ExactTrip(car, mult) ==
  Trip(RDiv(RMul(RMul(mult, car.capacity), Q(100, 1)),
            get_consumption(car, kmh_to_ms(Q(120, 1))).val),
       Q(2, 10), Q(1, 2), Q(1, 2))

SweepTrips ==
  {main_trip} \cup
  {WithField(main_trip, "distance_km", Q(250 * k, 1)) : k \in 1..MaxDistance}

BadCars ==
  {WithField(cla250, "eta", Zero), WithField(cla250, "eta", Q(3, 2)),
   WithField(cla250, "capacity", Zero),
   WithField(cla250, "charging_power", Q(-220, 1))}

BadTrips ==
  {WithField(main_trip, "soc_start", Q(3, 2)),
   WithField(main_trip, "soc_end", Q(-1, 2)),
   WithField(main_trip, "distance_km", Q(-100, 1))}

SweepInputs ==
  ({cla250} \X SweepTrips)
  \cup {<<zoe, main_trip>>}
  \cup {<<WithField(cla250, "eta", Zero), main_trip>>,
        <<cla250, WithField(main_trip, "soc_start", Q(3, 2))>>}

ConsumptionInputs ==
  {cla250, zoe, WithField(cla250, "eta", Zero),
   WithField(cla250, "eta", Q(3, 2))} \X {main_trip}

DurationInputs ==
  ({cla250} \X {main_trip, WithField(main_trip, "distance_km", Q(250, 1)),
                ExactTrip(cla250, Q(3, 2)), ExactTrip(cla250, Q(1, 1))})
  \cup {<<zoe, main_trip>>}
  \cup (BadCars \X {main_trip})
  \cup ({cla250} \X BadTrips)

SpeedSteps == -1..MaxSpeedStep
CallSpeedsMs == {Q(8 * k, 1) : k \in SpeedSteps}
CallSpeedsKmh == {Q(40 * k, 1) : k \in SpeedSteps}

----------------------------------------------------------------------------
(* State                                                                   *)

VARIABLES
  pc,                      \* "loop", "done", "raised": plot_speed_vs_duration
                           \* "get_consumption", "_get_trip_duration": the
                           \* function is called directly, again and again
  car, trip,               \* the arguments
  v_kmh,                   \* the next value of range(45, 211)
  speeds_kmh, times_h, consumptions_kwh_100km,
  df,                      \* the DataFrame handed to the plot
  call, prev               \* the last direct call and the one before it

vars ==
  <<pc, car, trip, v_kmh, speeds_kmh, times_h, consumptions_kwh_100km, df,
    call, prev>>

NoCall == [fn |-> "none", v |-> Zero, ret |-> Return(Zero), locals |-> <<>>]
NoFrame == [speed |-> <<>>, time |-> <<>>, consumption |-> <<>>]

Init ==
  /\ \E args \in SweepInputs \cup ConsumptionInputs \cup DurationInputs :
       /\ car = args[1]
       /\ trip = args[2]
       /\ \/ args \in SweepInputs /\ pc = "loop"
          \/ args \in ConsumptionInputs /\ pc = "get_consumption"
          \/ args \in DurationInputs /\ pc = "_get_trip_duration"
  /\ v_kmh = v_first
  /\ speeds_kmh = <<>>
  /\ times_h = <<>>
  /\ consumptions_kwh_100km = <<>>
  /\ df = NoFrame
  /\ call = NoCall
  /\ prev = NoCall

\* variant: the loop writes the state of charge at arrival back to the trip
LoopBodyDraining ==
  /\ pc = "loop"
  /\ InRange(v_kmh)
  /\ LET t == _get_trip_duration(car, trip, Q(v_kmh, 1))
         c == get_consumption(car, kmh_to_ms(Q(v_kmh, 1)))
     IN  /\ speeds_kmh' = Append(speeds_kmh, v_kmh)
         /\ IF Raised(t)
            THEN /\ pc' = "raised"
                 /\ UNCHANGED <<times_h, consumptions_kwh_100km, v_kmh, trip>>
            ELSE /\ times_h' = Append(times_h, t.val)
                 /\ consumptions_kwh_100km' =
                      Append(consumptions_kwh_100km, c.val)
                 /\ v_kmh' = v_kmh + 1
                 /\ trip' = [trip EXCEPT !.soc_start = trip.soc_end]
                 /\ pc' = "loop"
  /\ UNCHANGED <<car, df, call, prev>>

\* one iteration of the for loop of plot_speed_vs_duration
LoopBody ==
  /\ pc = "loop"
  /\ InRange(v_kmh)
  /\ LET t == _get_trip_duration(car, trip, Q(v_kmh, 1))
         c == get_consumption(car, kmh_to_ms(Q(v_kmh, 1)))
     IN  /\ speeds_kmh' = Append(speeds_kmh, v_kmh)
         /\ IF Raised(t)
            THEN /\ pc' = "raised"
                 /\ UNCHANGED <<times_h, consumptions_kwh_100km, v_kmh>>
            ELSE /\ times_h' = Append(times_h, t.val)
                 /\ consumptions_kwh_100km' =
                      Append(consumptions_kwh_100km, c.val)
                 /\ v_kmh' = v_kmh + 1
                 /\ pc' = "loop"
  /\ UNCHANGED <<car, trip, df, call, prev>>

\* the range is exhausted: the lists become the DataFrame
LoopExit ==
  /\ pc = "loop"
  /\ ~InRange(v_kmh)
  /\ df' = [speed |-> speeds_kmh, time |-> times_h,
            consumption |-> consumptions_kwh_100km]
  /\ pc' = "done"
  /\ UNCHANGED <<car, trip, v_kmh, speeds_kmh, times_h,
                 consumptions_kwh_100km, call, prev>>

CallGetConsumption(v_ms) ==
  /\ pc = "get_consumption"
  /\ call' = [fn |-> "get_consumption", v |-> v_ms,
              ret |-> get_consumption(car, v_ms), locals |-> <<>>]
  /\ prev' = call
  /\ UNCHANGED <<pc, car, trip, v_kmh, speeds_kmh, times_h,
                 consumptions_kwh_100km, df>>

CallGetTripDuration(v) ==
  /\ pc = "_get_trip_duration"
  /\ LET r == _get_trip_duration(car, trip, v)
     IN  call' = [fn |-> "_get_trip_duration", v |-> v, ret |-> r,
                  locals |-> IF Raised(r) THEN <<>>
                             ELSE TripLocals(car, trip, v)]
  /\ prev' = call
  /\ UNCHANGED <<pc, car, trip, v_kmh, speeds_kmh, times_h,
                 consumptions_kwh_100km, df>>

Next ==
  \/ LoopBody
  \/ LoopExit
  \/ \E v \in CallSpeedsMs : CallGetConsumption(v)
  \/ \E v \in CallSpeedsKmh : CallGetTripDuration(v)

Spec == Init /\ [][Next]_vars

\* a step of the for loop: the next value, the end of the range or a raise
LoopStep ==
  /\ pc = "loop"
  /\ \/ pc' = "loop" /\ v_kmh' = v_kmh + 1
     \/ pc' \in {"done", "raised"} /\ v_kmh' = v_kmh

\* the loop is not interrupted: it runs until the range is exhausted
FairSpec == Spec /\ WF_<<pc, v_kmh>>(LoopStep)

----------------------------------------------------------------------------
(* The domain of the inputs                                                *)

IsPos(x) == ~x.neg /\ x.n # <<>>
One == Q(1, 1)

PositiveCar(c) ==
  /\ IsPos(c.weight) /\ IsPos(c.area) /\ IsPos(c.eta) /\ IsPos(c.capacity)
  /\ IsPos(c.p_additional) /\ IsPos(c.cw) /\ IsPos(c.cr)
  /\ IsPos(c.charging_power)

ValidCar(c) == PositiveCar(c) /\ RLe(c.eta, One)

ValidTrip(t) ==
  /\ ~t.distance_km.neg
  /\ ~t.charging_penalty_time_h.neg
  /\ ~t.soc_start.neg /\ RLe(t.soc_start, One)
  /\ ~t.soc_end.neg /\ RLe(t.soc_end, One)

InSweep == pc \in {"loop", "done"}
Samples == Len(consumptions_kwh_100km)

ConsumptionCall(c) == c.fn = "get_consumption" /\ ~Raised(c.ret)
DurationCall(c) == c.fn = "_get_trip_duration" /\ ~Raised(c.ret)

----------------------------------------------------------------------------
(* Consumption                                                             *)

\* the speed is at or above the speed of least consumption of the vehicle:
\* RO * cw * area * v^3 >= p_additional * eta
AboveMinimum(c, v_ms) ==
  RLe(RMul(c.p_additional, c.eta),
      RMul(RMul(RMul(RO, c.cw), c.area), RMul(RMul(v_ms, v_ms), v_ms)))

TwoConsumptionCalls ==
  /\ PositiveCar(car)
  /\ ConsumptionCall(prev) /\ ConsumptionCall(call)
  /\ IsPos(prev.v) /\ RLt(prev.v, call.v)

\* C1 as stated: for a vehicle with positive parameters get_consumption is
\* strictly increasing in speed, for every pair of speeds 0 < v1 < v2 and
\* for every pair of adjacent speeds of the sweep 45..210 km/h.
C1_IncreasingEverywhere ==
  /\ TwoConsumptionCalls => RLt(prev.ret.val, call.ret.val)
  /\ InSweep /\ PositiveCar(car) =>
       \A i \in 1..(Samples - 1) :
         RLt(consumptions_kwh_100km[i], consumptions_kwh_100km[i + 1])

PairRises(cs, i) == RLt(cs[i], cs[i + 1])

RisesFrom(c, v) ==
  \/ AboveMinimum(c, kmh_to_ms(Q(v, 1)))
  \/ c = cla250 /\ v >= 46

\* C1 amended: get_consumption is strictly increasing in speed from the speed
\* of least consumption on: for 0 < v1 < v2 with
\* RO * cw * area * v1^3 >= p_additional * eta, consumption(v1) <
\* consumption(v2).  In the sweep of the default vehicle the consumption falls
\* from 45 to 46 km/h and rises for every adjacent pair from 46 to 210 km/h.
C1_IncreasingAboveMinimum ==
  /\ TwoConsumptionCalls /\ AboveMinimum(car, prev.v) =>
       RLt(prev.ret.val, call.ret.val)
  /\ InSweep /\ PositiveCar(car) /\ Samples >= 2 =>
       /\ RisesFrom(car, speeds_kmh[Samples - 1]) =>
            PairRises(consumptions_kwh_100km, Samples - 1)
       /\ car = cla250 =>
            RLt(consumptions_kwh_100km[2], consumptions_kwh_100km[1])
  /\ pc = "done" /\ PositiveCar(car) =>
       \A i \in 1..(Len(df.speed) - 1) :
         RisesFrom(car, df.speed[i]) => PairRises(df.consumption, i)

C1_Witness ==
  /\ TwoConsumptionCalls
  /\ car = cla250
  /\ AboveMinimum(car, prev.v)
  /\ RLt(prev.ret.val, call.ret.val)

\* C2 as stated: the default vehicle consumes between 15 and 16 kWh/100km at
\* 120 km/h.
C2_Between15And16 ==
  InSweep /\ car = cla250 =>
    \A i \in 1..Samples :
      speeds_kmh[i] = 120 =>
        /\ RLe(Q(15, 1), consumptions_kwh_100km[i])
        /\ RLe(consumptions_kwh_100km[i], Q(16, 1))

\* C2 amended: the default vehicle consumes between 14 and 15 kWh/100km at
\* 120 km/h (4774913/334800, about 14.26).
C2_Between14And15 ==
  InSweep /\ car = cla250 =>
    \A i \in 1..Samples :
      speeds_kmh[i] = 120 =>
        /\ RLe(Q(14, 1), consumptions_kwh_100km[i])
        /\ RLe(consumptions_kwh_100km[i], Q(15, 1))
        /\ REq(consumptions_kwh_100km[i], Q(4774913, 334800))

C2_Witness ==
  /\ InSweep /\ car = cla250
  /\ \E i \in 1..Samples : speeds_kmh[i] = 120

\* the reference value of the consumption, kWh per 100 km
ReferenceConsumption(c, v) ==
  LET d == RDiv(RDiv(Q(100000, 1), v), Q(3600, 1))
      rolling == RMul(RMul(RMul(c.cr, G), c.weight), v)
      drag == RMul(RMul(RMul(RMul(RMul(Q(5, 10), RO), RMul(v, v)), c.cw),
                        c.area), v)
      driving == RDiv(RMul(RAdd(rolling, drag), d), c.eta)
  IN  RDiv(RAdd(driving, RMul(c.p_additional, d)), Q(1000, 1))

\* C10: for every speed v_ms > 0 get_consumption returns
\* ((cr*g*weight*v + 0.5*airDensity*v^2*cw*area*v) * d / eta
\*  + p_additional * d) / 1000 with d = (100000 / v) / 3600: the efficiency
\* divides the driving energy only.
C10_ReferenceConsumption ==
  /\ (call.fn = "get_consumption" /\ IsPos(call.v)
      /\ ~IsZero(car.eta)) =>
       /\ ~Raised(call.ret)
       /\ REq(call.ret.val, ReferenceConsumption(car, call.v))
  /\ InSweep /\ Samples >= 1 =>
       REq(consumptions_kwh_100km[Samples],
           ReferenceConsumption(car, kmh_to_ms(Q(speeds_kmh[Samples], 1))))

C10_Witness ==
  /\ ConsumptionCall(call) /\ IsPos(call.v)
  /\ car = zoe
  /\ REq(call.ret.val, ReferenceConsumption(car, call.v))

----------------------------------------------------------------------------
(* Trip duration                                                           *)

Valid == ValidCar(car) /\ ValidTrip(trip)

\* the driving time of the last direct call
CallDrivingTime == RDiv(trip.distance_km, call.v)

EnoughCharge(l) ==
  RLe(RAdd(l.energy_needed_kwh, l.energy_end_kwh), l.energy_start_kwh)

\* C3: whenever soc_start * capacity >= energy_needed_kwh +
\* soc_end * capacity, _get_trip_duration counts 0 stops, 0 penalty and 0
\* charging time and returns distance_km / v_kmh exactly.
C3_NoChargingWhenEnoughCharge ==
  DurationCall(call) /\ EnoughCharge(call.locals) =>
    /\ call.locals.num_times_charging = 0
    /\ IsZero(call.locals.energy_to_charge_kwh)
    /\ IsZero(call.locals.penalty)
    /\ IsZero(call.locals.charging_time_h)
    /\ REq(call.ret.val, CallDrivingTime)

C3_Witness ==
  /\ DurationCall(call) /\ Valid /\ IsPos(call.v)
  /\ EnoughCharge(call.locals)
  /\ call.locals.num_times_charging = 0
  /\ REq(call.ret.val, CallDrivingTime)

Times(k, x) == RMul(Q(k, 1), x)

\* C4: num_times_charging is the least non-negative integer n with
\* n * capacity >= energy_to_charge_kwh; 1.5 * capacity gives 2 stops and
\* exactly one capacity gives 1 stop.
C4_CeilingLaw ==
  DurationCall(call) /\ IsPos(car.capacity) =>
    LET n == call.locals.num_times_charging
        e == call.locals.energy_to_charge_kwh
    IN  /\ n >= 0
        /\ RLe(e, Times(n, car.capacity))
        /\ n >= 1 => RLt(Times(n - 1, car.capacity), e)
        /\ REq(e, RMul(Q(3, 2), car.capacity)) => n = 2
        /\ REq(e, car.capacity) => n = 1

C4_Witness ==
  /\ DurationCall(call) /\ Valid
  /\ REq(call.locals.energy_to_charge_kwh, RMul(Q(3, 2), car.capacity))
  /\ call.locals.num_times_charging = 2

\* C7: for a valid vehicle, trip and speed the total time is at least the
\* driving time distance_km / v_kmh and strictly greater exactly when
\* energy_to_charge_kwh > 0; in the scenario of __main__ at 120 km/h it is
\* strictly greater.
C7_ChargingAddsTime ==
  /\ DurationCall(call) /\ Valid /\ IsPos(call.v) =>
       /\ RLe(CallDrivingTime, call.ret.val)
       /\ RLt(CallDrivingTime, call.ret.val)
            <=> IsPos(call.locals.energy_to_charge_kwh)
  /\ (DurationCall(call) /\ car = cla250 /\ trip = main_trip
      /\ REq(call.v, Q(120, 1))) => RLt(CallDrivingTime, call.ret.val)
  /\ InSweep /\ Valid /\ Samples >= 1 =>
       RLe(RDiv(trip.distance_km, Q(speeds_kmh[Samples], 1)), times_h[Samples])

C7_Witness ==
  /\ DurationCall(call) /\ car = cla250 /\ trip = main_trip
  /\ REq(call.v, Q(120, 1))
  /\ IsPos(call.locals.energy_to_charge_kwh)
  /\ RLt(CallDrivingTime, call.ret.val)

\* the energy to charge, the penalty and the total time of the reference
ReferenceEnergy(c, t, v) ==
  LET x == RSub(RAdd(RDiv(RMul(get_consumption(c, RDiv(v, Q(36, 10))).val,
                               t.distance_km), Q(100, 1)),
                     RMul(t.soc_end, c.capacity)),
                RMul(t.soc_start, c.capacity))
  IN  IF x.neg THEN Zero ELSE x

ReferencePenalty(c, t, e) ==
  IF IsPos(e) THEN Times(Ceil(RDiv(e, c.capacity)), t.charging_penalty_time_h)
  ELSE Zero

ReferenceDuration(c, t, v) ==
  LET e == ReferenceEnergy(c, t, v)
  IN  RAdd(RAdd(RDiv(t.distance_km, v), RDiv(e, c.charging_power)),
           ReferencePenalty(c, t, e))

\* C9: for a valid vehicle, trip and speed _get_trip_duration returns
\* distance_km / v_kmh + E / charging_power + P with
\* E = max(0, consumption * distance_km / 100 + soc_end * capacity
\*            - soc_start * capacity) and
\* P = charging_penalty_time_h * ceil(E / capacity) if E > 0, else 0.
C9_ReferenceDuration ==
  /\ call.fn = "_get_trip_duration" /\ Valid /\ IsPos(call.v) =>
       /\ ~Raised(call.ret)
       /\ REq(call.ret.val, ReferenceDuration(car, trip, call.v))
  /\ InSweep /\ Valid /\ Samples >= 1 =>
       REq(times_h[Samples],
           ReferenceDuration(car, trip, Q(speeds_kmh[Samples], 1)))

C9_Witness ==
  /\ DurationCall(call) /\ Valid /\ IsPos(call.v)
  /\ call.locals.num_times_charging >= 2
  /\ IsPos(call.locals.penalty)
  /\ REq(call.ret.val, ReferenceDuration(car, trip, call.v))

----------------------------------------------------------------------------
(* Inputs outside the domain                                               *)

EtaOutOfDomain == ~IsPos(car.eta) \/ RLt(One, car.eta)

OutOfDomain ==
  \/ ~IsPos(call.v)
  \/ EtaOutOfDomain
  \/ /\ call.fn = "_get_trip_duration"
     /\ \/ ~ValidTrip(trip)
        \/ ~IsPos(car.capacity)
        \/ ~IsPos(car.charging_power)

\* C6: an input outside the domain (speed <= 0, eta outside (0,1], negative
\* distance, state of charge outside [0,1], capacity <= 0,
\* charging_power <= 0) makes get_consumption and _get_trip_duration fail
\* with InvalidInput: no number is returned, no division by zero is reached
\* and the sweep produces no sample.
C6_InvalidInputRejected ==
  /\ call.fn # "none" /\ OutOfDomain => call.ret.exc = "InvalidInput"
  /\ pc \in {"loop", "done", "raised"} /\ ~Valid =>
       /\ pc # "done"
       /\ times_h = <<>>
       /\ consumptions_kwh_100km = <<>>

----------------------------------------------------------------------------
(* The sweep                                                               *)

C5_Aligned ==
  InSweep =>
    /\ Len(speeds_kmh) = v_kmh - 45
    /\ Len(times_h) = Len(speeds_kmh)
    /\ Len(consumptions_kwh_100km) = Len(speeds_kmh)
    /\ \A i \in 1..Len(speeds_kmh) : speeds_kmh[i] = 45 + (i - 1)
    /\ Samples >= 1 =>
         /\ REq(times_h[Samples],
                _get_trip_duration(car, trip, Q(44 + Samples, 1)).val)
         /\ REq(consumptions_kwh_100km[Samples],
                get_consumption(car, kmh_to_ms(Q(44 + Samples, 1))).val)

C5_Output ==
  pc = "done" =>
    /\ Len(df.speed) = 166 /\ Len(df.time) = 166 /\ Len(df.consumption) = 166
    /\ \A i \in 1..166 : df.speed[i] = 44 + i
    /\ \A i \in 1..165 : df.speed[i] < df.speed[i + 1]

\* C5: the sweep terminates with exactly one sample per integer speed from
\* 45 to 210 km/h (166 samples) in strictly ascending order, and after every
\* iteration the three lists have the same length, index i holding the
\* values of speed 45 + i.
C5_SweepCompletes ==
  /\ [](C5_Aligned /\ C5_Output)
  /\ (pc = "loop" /\ ValidCar(car)) ~> (pc = "done")

C5_Witness ==
  /\ pc = "done" /\ car = cla250 /\ trip = main_trip
  /\ Len(df.speed) = 166
  /\ df.speed[1] = 45 /\ df.speed[166] = 210

\* the output of the sweep as a function of the car and the trip alone
SweepOf(c, t) ==
  [speed |-> [i \in 1..166 |-> 44 + i],
   time |-> [i \in 1..166 |-> _get_trip_duration(c, t, Q(44 + i, 1)).val],
   consumption |->
     [i \in 1..166 |-> get_consumption(c, kmh_to_ms(Q(44 + i, 1))).val]]

C8_Step ==
  /\ car' = car
  /\ trip' = trip
  /\ Len(times_h') = Len(times_h) + 1 =>
       /\ times_h' =
            Append(times_h, _get_trip_duration(car, trip, Q(v_kmh, 1)).val)
       /\ consumptions_kwh_100km' =
            Append(consumptions_kwh_100km,
                   get_consumption(car, kmh_to_ms(Q(v_kmh, 1))).val)
  /\ pc' = "done" /\ pc # "done" => df' = SweepOf(car, trip)

\* C8: the sweep is deterministic and stateless: every sample is a function
\* of (car, trip, speed) only, the output is a function of the car and the
\* trip alone, and no step modifies the car or the trip.
C8_Deterministic == [][C8_Step]_vars

C8_Witness ==
  /\ pc = "done" /\ car = cla250 /\ trip = main_trip
  /\ Len(df.time) = 166
  /\ df.time[76] = _get_trip_duration(car, trip, Q(120, 1)).val

====
